---- MODULE Spec2Model ----
(***************************************************************************)
(* Model of option_greeks.ipynb: the Black-Scholes helpers d, call_price,  *)
(* put_price, delta, gamma, theta and the notebook cells that use them.    *)
(*                                                                         *)
(* Numbers.  Python floats are modelled in fixed point, as integers in     *)
(* thousandths ("milli") unless an operator says otherwise; the market     *)
(* inputs S, K, r, t, sigma are whole numbers in their natural units.      *)
(* A Python value is a record [k, v]: k = "fin" with the integer v, or one *)
(* of the IEEE specials "nan", "pinf", "ninf", or "none" (None), "func" (a *)
(* function object), "undef" (the name is not bound).                      *)
(***************************************************************************)
EXTENDS Integers, Sequences, FiniteSets, TLC

VARIABLES g, out, pc

vars == <<g, out, pc>>

-----------------------------------------------------------------------------
(* Bounds of the model. *)

\* S and K range over 0..MaxPrice.
MaxPrice == 2
\* t ranges over 0..MaxTime (years).
MaxTime == 1
\* sigma ranges over 0..MaxVol.
MaxVol == 1
\* r ranges over -MaxRate..MaxRate.
MaxRate == 1
\* d_1 / d2 arguments of direct calls range over -MaxArg..MaxArg (units).
MaxArg == 2

-----------------------------------------------------------------------------
(* Python values. *)

Fin(n) == [k |-> "fin", v |-> n]
NaN == [k |-> "nan", v |-> 0]
PInf == [k |-> "pinf", v |-> 0]
NInf == [k |-> "ninf", v |-> 0]
None == [k |-> "none", v |-> 0]
Func == [k |-> "func", v |-> 0]
Undef == [k |-> "undef", v |-> 0]

IsFin(x) == x.k = "fin"

\* -1, 0, 1 for a finite or infinite value.
Sgn(x) ==
    CASE x.k = "pinf" -> 1
      [] x.k = "ninf" -> -1
      [] OTHER -> IF x.v > 0 THEN 1 ELSE IF x.v < 0 THEN -1 ELSE 0

\* a / b rounded to the nearest integer, halves away from zero (b # 0).
RoundDiv(a, b) ==
    LET n == IF b < 0 THEN -a ELSE a
        m == IF b < 0 THEN -b ELSE b
    IN  IF n >= 0 THEN (2 * n + m) \div (2 * m)
        ELSE -((2 * (-n) + m) \div (2 * m))

\* IEEE negation.
XNeg(x) ==
    CASE x.k = "fin" -> Fin(-x.v)
      [] x.k = "pinf" -> NInf
      [] x.k = "ninf" -> PInf
      [] OTHER -> NaN

\* IEEE addition (operands on the same scale).
XAdd(a, b) ==
    IF a.k = "nan" \/ b.k = "nan" THEN NaN
    ELSE IF IsFin(a) /\ IsFin(b) THEN Fin(a.v + b.v)
    ELSE IF IsFin(a) THEN b
    ELSE IF IsFin(b) THEN a
    ELSE IF a.k = b.k THEN a ELSE NaN

XSub(a, b) == XAdd(a, XNeg(b))

\* IEEE multiplication; the scale of the product is the product of the scales.
XMul(a, b) ==
    IF a.k = "nan" \/ b.k = "nan" THEN NaN
    ELSE IF IsFin(a) /\ IsFin(b) THEN Fin(a.v * b.v)
    ELSE IF Sgn(a) * Sgn(b) = 0 THEN NaN
    ELSE IF Sgn(a) * Sgn(b) > 0 THEN PInf ELSE NInf

\* numpy true division a / b, the quotient expressed with `one` as its unit
\* when a and b are on the same scale: x / 0 is +-inf or nan, never an error.
XDiv(a, b, one) ==
    IF a.k = "nan" \/ b.k = "nan" THEN NaN
    ELSE IF IsFin(a) /\ IsFin(b)
         THEN IF b.v # 0 THEN Fin(RoundDiv(a.v * one, b.v))
              ELSE IF a.v = 0 THEN NaN
              ELSE IF a.v > 0 THEN PInf ELSE NInf
    ELSE IF IsFin(a) THEN Fin(0)
    ELSE IF IsFin(b)
         THEN IF (Sgn(a) > 0) = (b.v >= 0) THEN PInf ELSE NInf
    ELSE NaN

-----------------------------------------------------------------------------
(* numpy / scipy primitives, tabulated. *)

\* sqrt(n) in milli for n in 0..4.
SqrtTab == <<0, 1000, 1414, 1732, 2000>>

\* np.sqrt(t): nan for a negative argument.
Sqrt(t) ==
    CASE t.k = "fin" -> IF t.v < 0 THEN NaN ELSE Fin(SqrtTab[t.v + 1])
      [] t.k = "pinf" -> PInf
      [] OTHER -> NaN

\* ln(n) in milli for n in 1..6.
LnTab == <<0, 693, 1099, 1386, 1609, 1792>>

\* np.log(S / K) for K # 0: nan for a negative ratio, -inf for 0.
Log(S, K) ==
    IF S.v * K.v < 0 THEN NaN
    ELSE IF S.v = 0 THEN NInf
    ELSE LET a == IF S.v < 0 THEN -S.v ELSE S.v
             b == IF K.v < 0 THEN -K.v ELSE K.v
         IN  Fin(LnTab[a] - LnTab[b])

\* exp(n) in milli for n in -8..4.
ExpTab == <<0, 1, 2, 7, 18, 50, 135, 368, 1000, 2718, 7389, 20086, 54598>>

\* np.exp(x) for a whole-number x.
Exp(x) == Fin(ExpTab[x.v + 9])

\* Phi at 0, 0.5, ..., 4.0 and beyond, in milli.
CdfTab == <<500, 691, 841, 933, 977, 994, 999, 1000, 1000, 1000>>

\* phi at 0, 0.5, ..., 4.0 and beyond, in milli.
PdfTab == <<399, 352, 242, 130, 54, 18, 4, 1, 0, 0>>

\* Linear interpolation in a table with step 0.5, for n >= 0 in milli.
Interp(tab, n) ==
    IF n >= 4000 THEN tab[9]
    ELSE LET i == n \div 500
             f == n % 500
         IN  tab[i + 1] + RoundDiv((tab[i + 2] - tab[i + 1]) * f, 500)

\* norm.cdf(x), x in milli, result in milli; Phi(-x) = 1 - Phi(x).
Cdf(x) ==
    CASE x.k = "fin" ->
            IF x.v < 0 THEN Fin(1000 - Interp(CdfTab, -x.v))
            ELSE Fin(Interp(CdfTab, x.v))
      [] x.k = "pinf" -> Fin(1000)
      [] x.k = "ninf" -> Fin(0)
      [] OTHER -> NaN

\* norm.pdf(x), x in milli, result in milli.
Pdf(x) ==
    CASE x.k = "fin" -> Fin(Interp(PdfTab, IF x.v < 0 THEN -x.v ELSE x.v))
      [] x.k \in {"pinf", "ninf"} -> Fin(0)
      [] OTHER -> NaN

-----------------------------------------------------------------------------
(* Calls.  A call takes the module globals g and returns them together     *)
(* with its outcome: exc = "" and the returned values in val, or the name  *)
(* of the exception raised.                                                *)

Return(gl, vals) == [g |-> gl, exc |-> "", val |-> vals]
Raise(gl, e) == [g |-> gl, exc |-> e, val |-> <<>>]

\* K * np.exp(-r * t), in milli.
Discounted(K, r, t) == XMul(K, Exp(XMul(XNeg(r), t)))

\* d: d1 and d2 in milli.  S / K is Python division and raises on K = 0;
\* everything else is numpy arithmetic.  d1 and d2 are locals of the call.
\* (1 / den) * x is evaluated as x / den, which has the same special values.
d(gl, sigma, S, K, r, t) ==
    IF K.v = 0 THEN Raise(gl, "ZeroDivisionError")
    ELSE LET den == XMul(sigma, Sqrt(t))
             drift == XMul(Fin(1000 * r.v + 500 * sigma.v * sigma.v), t)
             d1 == XDiv(XAdd(Log(S, K), drift), den, 1000)
             d2 == XSub(d1, den)
         IN  Return(gl, <<d1, d2>>)

\* call_price, in units of 10^-6.  C is a local of the call.
call_price(gl, sigma, S, K, r, t, d1, d2) ==
    LET C == XSub(XMul(XMul(Cdf(d1), S), Fin(1000)),
                  XMul(Cdf(d2), Discounted(K, r, t)))
    IN  Return(gl, <<C>>)

\* put_price with the sign of the first term dropped.
put_pricePlus(gl, sigma, S, K, r, t, d1, d2) ==
    LET P == XAdd(XMul(XMul(Cdf(XNeg(d1)), S), Fin(1000)),
                  XMul(Cdf(XNeg(d2)), Discounted(K, r, t)))
    IN  Return(gl, <<P>>)

\* put_price, in units of 10^-6.  P is a local of the call.
put_price(gl, sigma, S, K, r, t, d1, d2) ==
    LET P == XAdd(XMul(XMul(XNeg(Cdf(XNeg(d1))), S), Fin(1000)),
                  XMul(Cdf(XNeg(d2)), Discounted(K, r, t)))
    IN  Return(gl, <<P>>)

\* delta with the put branch's outer sign dropped.
deltaPutSign(gl, d_1, contract_type) ==
    IF contract_type = "c"
    THEN IF gl.d1.k = "undef" THEN Raise(gl, "NameError")
         ELSE Return(gl, <<Cdf(gl.d1)>>)
    ELSE IF contract_type = "p" THEN Return(gl, <<Cdf(XNeg(d_1))>>)
    ELSE Return(gl, <<None>>)

\* delta, in milli.  The call branch reads the name d1, which is no parameter
\* or local of delta and so resolves to the module global (NameError when it
\* is unbound); the put branch reads the parameter d_1.  With neither branch
\* taken the body ends and the call returns None.
delta(gl, d_1, contract_type) ==
    IF contract_type = "c"
    THEN IF gl.d1.k = "undef" THEN Raise(gl, "NameError")
         ELSE Return(gl, <<Cdf(gl.d1)>>)
    ELSE IF contract_type = "p" THEN Return(gl, <<XNeg(Cdf(XNeg(d_1)))>>)
    ELSE Return(gl, <<None>>)

\* gamma with d2 used in place of norm.pdf(d2).
gammaNoPdf(gl, d2, S, K, sigma, r, t) ==
    LET den == XMul(XMul(XMul(S, S), sigma), Sqrt(t))
    IN  Return(gl, <<XMul(Discounted(K, r, t), XDiv(d2, den, 1000))>>)

\* gamma, in units of 10^-6.
gamma(gl, d2, S, K, sigma, r, t) ==
    LET den == XMul(XMul(XMul(S, S), sigma), Sqrt(t))
    IN  Return(gl, <<XMul(Discounted(K, r, t), XDiv(Pdf(d2), den, 1000))>>)

\* The value theta computes for a call, in units of 10^-6.
ThetaCall(d1, d2, S, K, sigma, r, t) ==
    XSub(XMul(XDiv(XMul(XMul(XNeg(S), sigma), Pdf(d1)),
                   XMul(Fin(2), Sqrt(t)), 1000), Fin(1000)),
         XMul(XMul(r, Discounted(K, r, t)), Cdf(d2)))

\* The value theta computes for a put, in units of 10^-6.
ThetaPut(d1, d2, S, K, sigma, r, t) ==
    XAdd(XMul(XDiv(XMul(XMul(XNeg(S), sigma), Pdf(XNeg(d1))),
                   XMul(Fin(2), Sqrt(t)), 1000), Fin(1000)),
         XMul(XMul(r, Discounted(K, r, t)), Cdf(XNeg(d2))))

\* theta whose name theta is not local: an unmatched type returns the module's
\* binding of theta.
thetaReadsGlobal(gl, d1, d2, S, K, sigma, r, t, contract_type) ==
    LET th1 == IF contract_type = "c"
               THEN ThetaCall(d1, d2, S, K, sigma, r, t) ELSE gl.theta
        th2 == IF contract_type = "p"
               THEN ThetaPut(d1, d2, S, K, sigma, r, t) ELSE th1
    IN  Return(gl, <<th2>>)

\* theta whose assignments bind the module's name theta (as under a
\* `global theta` statement).
thetaWritesGlobal(gl, d1, d2, S, K, sigma, r, t, contract_type) ==
    LET th1 == IF contract_type = "c"
               THEN ThetaCall(d1, d2, S, K, sigma, r, t) ELSE gl.theta
        th2 == IF contract_type = "p"
               THEN ThetaPut(d1, d2, S, K, sigma, r, t) ELSE th1
    IN  Return([gl EXCEPT !.theta = th2], <<th2>>)

\* theta.  The assignments make theta a local of the call, unbound on entry
\* (th1, th2: the local after the first and the second if); `return theta`
\* with the local still unbound raises UnboundLocalError.  The module's
\* binding of the name theta is neither read nor written.
theta(gl, d1, d2, S, K, sigma, r, t, contract_type) ==
    LET th1 == IF contract_type = "c"
               THEN ThetaCall(d1, d2, S, K, sigma, r, t) ELSE Undef
        th2 == IF contract_type = "p"
               THEN ThetaPut(d1, d2, S, K, sigma, r, t) ELSE th1
    IN  IF th2.k = "undef" THEN Raise(gl, "UnboundLocalError")
        ELSE Return(gl, <<th2>>)

-----------------------------------------------------------------------------
(* The notebook.  g holds the module globals, out the outcome of the last  *)
(* cell or call, pc the execution count of the next cell in the notebook's *)
(* top-to-bottom order (5: market inputs, 6: d1 and d2, 7: delta, 8:       *)
(* gamma, 9: theta, 10: end).                                              *)

PriceVals == {Fin(n) : n \in 0..MaxPrice}
TimeVals == {Fin(n) : n \in 0..MaxTime}
VolVals == {Fin(n) : n \in 0..MaxVol}
RateVals == {Fin(n) : n \in -MaxRate..MaxRate}
ArgVals == {Fin(1000 * n) : n \in -MaxArg..MaxArg}
TypeVals == {"c", "p", "x"}

\* The values the market-inputs cell may assign: <<S, K, r, t, sigma>>.
InputVals == PriceVals \X PriceVals \X RateVals \X TimeVals \X VolVals

\* The outcome of a cell or call: what ran, on what, and what came of it.
Outcome(fn, ct, args, res) ==
    [fn |-> fn, ct |-> ct, args |-> args, exc |-> res.exc, val |-> res.val]

NoOutcome == [fn |-> "", ct |-> "", args |-> <<>>, exc |-> "", val |-> <<>>]

\* A cell's effect: the globals after it and its outcome.
Effect(gl, o) == [g |-> gl, out |-> o]

Bound(x) == x.k # "undef"
InputsBound(gl) == Bound(gl.S)
DBound(gl) == Bound(gl.d1)

\* The globals once the import and def cells have run.
Globals0 ==
    [S |-> Undef, K |-> Undef, r |-> Undef, t |-> Undef,
     sigma |-> Undef, d1 |-> Undef, d2 |-> Undef,
     delta_call |-> Undef, delta_put |-> Undef,
     d |-> Func, call_price |-> Func, put_price |-> Func,
     delta |-> Func, gamma |-> Func, theta |-> Func]

\* In [5]: the market inputs are assigned.
DoInputs(gl, u) ==
    Effect([gl EXCEPT !.S = u[1], !.K = u[2], !.r = u[3], !.t = u[4],
                      !.sigma = u[5]],
           Outcome("cell_inputs", "", <<>>, Return(gl, <<>>)))

\* In [6]: d1, d2 = d(sigma, S, K, r, t).
DoD(gl) ==
    IF ~InputsBound(gl)
    THEN Effect(gl, Outcome("cell_d", "", <<>>, Raise(gl, "NameError")))
    ELSE LET res == d(gl, gl.sigma, gl.S, gl.K, gl.r, gl.t)
         IN  Effect(IF res.exc # "" THEN res.g
                    ELSE [res.g EXCEPT !.d1 = res.val[1], !.d2 = res.val[2]],
                    Outcome("cell_d", "", <<gl.sigma, gl.S, gl.K, gl.r, gl.t>>, res))

\* In [7]: delta_call = delta(d1, 'c'); delta_put = delta(d1, 'p').
DoDelta(gl) ==
    IF ~DBound(gl)
    THEN Effect(gl, Outcome("cell_delta", "", <<>>, Raise(gl, "NameError")))
    ELSE LET c == delta(gl, gl.d1, "c")
             g1 == IF c.exc # "" THEN c.g
                   ELSE [c.g EXCEPT !.delta_call = c.val[1]]
             p == delta(g1, g1.d1, "p")
         IN  IF c.exc # ""
             THEN Effect(g1, Outcome("cell_delta", "", <<gl.d1>>, c))
             ELSE Effect(IF p.exc # "" THEN p.g
                         ELSE [p.g EXCEPT !.delta_put = p.val[1]],
                         Outcome("cell_delta", "", <<gl.d1>>,
                                 [p EXCEPT !.val = c.val \o p.val]))

\* In [8]: print(gamma(d2, S, K, sigma, r, t)).
DoGamma(gl) ==
    IF ~DBound(gl)
    THEN Effect(gl, Outcome("cell_gamma", "", <<>>, Raise(gl, "NameError")))
    ELSE LET res == gamma(gl, gl.d2, gl.S, gl.K, gl.sigma, gl.r, gl.t)
         IN  Effect(res.g, Outcome("cell_gamma", "",
                           <<gl.d2, gl.S, gl.K, gl.sigma, gl.r, gl.t>>, res))

\* theta(...) / 365 * 100, as the theta cell prints it.
PerDay(x) == XMul(XDiv(x, Fin(365), 1), Fin(100))

\* In [9]: print(theta(..., 'c') / 365 * 100); print(theta(..., 'p') / 365 * 100).
DoTheta(gl) ==
    IF ~DBound(gl)
    THEN Effect(gl, Outcome("cell_theta", "", <<>>, Raise(gl, "NameError")))
    ELSE LET c == theta(gl, gl.d1, gl.d2, gl.S, gl.K, gl.sigma, gl.r, gl.t, "c")
             p == theta(c.g, c.g.d1, c.g.d2, c.g.S, c.g.K, c.g.sigma, c.g.r,
                        c.g.t, "p")
             a == <<gl.d1, gl.d2, gl.S, gl.K, gl.sigma, gl.r, gl.t>>
         IN  IF c.exc # "" THEN Effect(c.g, Outcome("cell_theta", "", a, c))
             ELSE IF p.exc # "" THEN Effect(p.g, Outcome("cell_theta", "", a, p))
             ELSE Effect(p.g, Outcome("cell_theta", "", a,
                         Return(p.g, <<PerDay(c.val[1]), PerDay(p.val[1])>>)))

CellInputs == \E u \in InputVals : g' = DoInputs(g, u).g /\ out' = DoInputs(g, u).out
CellD == g' = DoD(g).g /\ out' = DoD(g).out
CellDelta == g' = DoDelta(g).g /\ out' = DoDelta(g).out
CellGamma == g' = DoGamma(g).g /\ out' = DoGamma(g).out
CellTheta == g' = DoTheta(g).g /\ out' = DoTheta(g).out

Init ==
    /\ g = Globals0
    /\ out = NoOutcome
    /\ pc = 5

(* An interactive session: the cells executed in any order, any number of  *)
(* times, the market-inputs cell with any values.                          *)

ExecInputs == CellInputs /\ UNCHANGED pc
ExecD == CellD /\ UNCHANGED pc
ExecDelta == CellDelta /\ UNCHANGED pc
ExecGamma == CellGamma /\ UNCHANGED pc
ExecTheta == CellTheta /\ UNCHANGED pc

Next ==
    \/ ExecInputs
    \/ ExecD
    \/ ExecDelta
    \/ ExecGamma
    \/ ExecTheta

Spec == Init /\ [][Next]_vars

(* The notebook run top to bottom; the run stops at a cell that raises. *)

\* Cell n is next and no cell has raised.
Ready(n) == pc = n /\ out.exc = ""
\* The run moves on unless the cell raised.
Advance(n) == pc' = IF out'.exc = "" THEN n + 1 ELSE n

RunInputs == Ready(5) /\ CellInputs /\ Advance(5)
RunD == Ready(6) /\ CellD /\ Advance(6)
RunDelta == Ready(7) /\ CellDelta /\ Advance(7)
RunGamma == Ready(8) /\ CellGamma /\ Advance(8)
RunTheta == Ready(9) /\ CellTheta /\ Advance(9)

NextRun ==
    \/ RunInputs
    \/ RunD
    \/ RunDelta
    \/ RunGamma
    \/ RunTheta

SpecRun == Init /\ [][NextRun]_vars

(* Direct calls of the six functions from a module state a session         *)
(* reaches: the market inputs and d1, d2 passed are the module's, the d_1  *)
(* / d2 argument of delta and gamma and the contract type are arbitrary.   *)

\* Inputs whose d1, d2 serve as the values left over from an earlier run.
EarlierInputs == <<Fin(1), Fin(2), Fin(0), Fin(1), Fin(1)>>

\* Globals after the cells In [5], In [6], In [7] have run on inputs u.
AfterDelta(u) == DoDelta(DoD(DoInputs(Globals0, u).g).g).g

\* Module states of a session: nothing run; inputs assigned; the delta cell
\* reached; inputs re-assigned after the delta cell was reached.
ModuleStates ==
    {Globals0}
        \cup {DoInputs(Globals0, u).g : u \in InputVals}
        \cup {AfterDelta(u) : u \in InputVals}
        \cup {DoInputs(AfterDelta(EarlierInputs), u).g : u \in InputVals}

InitCalls ==
    /\ g \in ModuleStates
    /\ out = NoOutcome
    /\ pc = 5

CallD ==
    /\ InputsBound(g)
    /\ LET res == d(g, g.sigma, g.S, g.K, g.r, g.t)
       IN  /\ out' = Outcome("d", "", <<g.sigma, g.S, g.K, g.r, g.t>>, res)
           /\ g' = res.g
    /\ UNCHANGED pc

CallCallPrice ==
    /\ DBound(g)
    /\ LET res == call_price(g, g.sigma, g.S, g.K, g.r, g.t, g.d1, g.d2)
       IN  /\ out' = Outcome("call_price", "",
                             <<g.sigma, g.S, g.K, g.r, g.t, g.d1, g.d2>>, res)
           /\ g' = res.g
    /\ UNCHANGED pc

CallPutPrice ==
    /\ DBound(g)
    /\ LET res == put_price(g, g.sigma, g.S, g.K, g.r, g.t, g.d1, g.d2)
       IN  /\ out' = Outcome("put_price", "",
                             <<g.sigma, g.S, g.K, g.r, g.t, g.d1, g.d2>>, res)
           /\ g' = res.g
    /\ UNCHANGED pc

CallDelta ==
    /\ \E x \in ArgVals, ct \in TypeVals :
        LET res == delta(g, x, ct)
        IN  /\ out' = Outcome("delta", ct, <<x>>, res)
            /\ g' = res.g
    /\ UNCHANGED pc

CallGamma ==
    /\ InputsBound(g)
    /\ \E x \in ArgVals :
        LET res == gamma(g, x, g.S, g.K, g.sigma, g.r, g.t)
        IN  /\ out' = Outcome("gamma", "", <<x, g.S, g.K, g.sigma, g.r, g.t>>, res)
            /\ g' = res.g
    /\ UNCHANGED pc

CallTheta ==
    /\ DBound(g)
    /\ \E ct \in TypeVals :
        LET res == theta(g, g.d1, g.d2, g.S, g.K, g.sigma, g.r, g.t, ct)
        IN  /\ out' = Outcome("theta", ct,
                              <<g.d1, g.d2, g.S, g.K, g.sigma, g.r, g.t>>, res)
            /\ g' = res.g
    /\ UNCHANGED pc

NextCalls ==
    \/ CallD
    \/ CallCallPrice
    \/ CallPutPrice
    \/ CallDelta
    \/ CallGamma
    \/ CallTheta

SpecCalls == InitCalls /\ [][NextCalls]_vars

-----------------------------------------------------------------------------
(* Properties. *)

\* The market inputs the specification calls valid: S, K, t, sigma > 0.
ValidMarket(S, K, t, sigma) == S.v > 0 /\ K.v > 0 /\ t.v > 0 /\ sigma.v > 0

\* A direct call of delta has just been made, in a session whose market inputs
\* are valid and whose d1 is finite.
DeltaCalled ==
    /\ out.fn = "delta" /\ out.ct \in {"c", "p"}
    /\ IsFin(g.d1)
    /\ ValidMarket(g.S, g.K, g.t, g.sigma)

\* C1: delta(d_1, contract_type) computes its result from the d_1 it is given,
\* whatever the module-level d1 holds: delta(d_1, 'c') = Phi(d_1) and
\* delta(d_1, 'p') = -Phi(-d_1).
C1_DeltaUsesItsArgument ==
    DeltaCalled =>
        /\ out.exc = ""
        /\ out.ct = "c" => out.val = <<Cdf(out.args[1])>>
        /\ out.ct = "p" => out.val = <<XNeg(Cdf(XNeg(out.args[1])))>>

\* C2: delta with a contract type that is neither 'c' nor 'p' fails; it never
\* returns a value (None included) to the caller.
C2_DeltaRejectsUnknownType ==
    (out.fn = "delta" /\ out.ct \notin {"c", "p"}) =>
        out.exc # "" /\ out.val = <<>>

\* C3: theta with a contract type that is neither 'c' nor 'p' fails on every
\* such call, the same way, and returns no value.
C3_ThetaRejectsUnknownType ==
    (out.fn = "theta" /\ out.ct \notin {"c", "p"}) =>
        out.exc = "UnboundLocalError" /\ out.val = <<>>

\* theta was called with valid inputs, finite d1 and d2 and an unknown type,
\* and raised.
C3_Witness ==
    /\ out.fn = "theta" /\ out.ct = "x"
    /\ IsFin(out.args[1]) /\ IsFin(out.args[2])
    /\ ValidMarket(out.args[3], out.args[4], out.args[7], out.args[5])
    /\ out.exc = "UnboundLocalError"

\* C4: d(sigma, S, K, r, t) rejects invalid market inputs; in particular with
\* sigma = 0 or t = 0 (S and K positive) the call fails and returns no
\* (d1, d2) pair.
C4_DRejectsInvalidInputs ==
    (/\ out.fn \in {"d", "cell_d"}
     /\ out.args # <<>>
     /\ out.args[2].v > 0 /\ out.args[3].v > 0
     /\ ~ValidMarket(out.args[2], out.args[3], out.args[5], out.args[1])) =>
        out.exc # "" /\ out.val = <<>>

\* C5: for every x, delta(x, 'c') - delta(x, 'p') = 1 with delta(x, 'c') in
\* [0, 1] and delta(x, 'p') in [-1, 0]: the call just made and the call of the
\* other type on the same argument.
C5_DeltaCallMinusPut ==
    DeltaCalled =>
        LET x == out.args[1]
            c == IF out.ct = "c" THEN out.val ELSE delta(g, x, "c").val
            p == IF out.ct = "p" THEN out.val ELSE delta(g, x, "p").val
        IN  /\ Len(c) = 1 /\ Len(p) = 1
            /\ IsFin(c[1]) /\ IsFin(p[1])
            /\ c[1].v - p[1].v = 1000
            /\ c[1].v \in 0..1000
            /\ p[1].v \in -1000..0

\* A direct call of call_price or put_price has just been made on valid
\* inputs, with the d1, d2 of those inputs.
PriceCalled ==
    /\ out.fn \in {"call_price", "put_price"}
    /\ ValidMarket(out.args[2], out.args[3], out.args[5], out.args[1])
    /\ <<out.args[6], out.args[7]>> =
           d(g, out.args[1], out.args[2], out.args[3], out.args[4], out.args[5]).val

\* C6: put-call parity: for valid inputs and (d1, d2) = d(sigma, S, K, r, t),
\* call_price - put_price = S - K * exp(-r * t), exactly (prices in 10^-6).
C6_PutCallParity ==
    PriceCalled =>
        LET a == out.args
            c == IF out.fn = "call_price" THEN out.val
                 ELSE call_price(g, a[1], a[2], a[3], a[4], a[5], a[6], a[7]).val
            p == IF out.fn = "put_price" THEN out.val
                 ELSE put_price(g, a[1], a[2], a[3], a[4], a[5], a[6], a[7]).val
        IN  /\ out.exc = ""
            /\ IsFin(c[1]) /\ IsFin(p[1])
            /\ c[1].v - p[1].v =
                   1000000 * a[2].v - 1000 * Discounted(a[3], a[4], a[5]).v

\* put_price ran on valid inputs with S # K * exp(-r * t) and a positive put.
C6_Witness ==
    /\ PriceCalled
    /\ out.fn = "put_price"
    /\ out.val[1].v > 0
    /\ 1000 * out.args[2].v # Discounted(out.args[3], out.args[4], out.args[5]).v

\* C7: every public operation is side-effect-free: a direct call of d,
\* call_price, put_price, delta, gamma or theta, returning or failing, leaves
\* every module-level variable and function binding unchanged.
C7_CallsLeaveGlobalsUnchanged ==
    [][out'.fn \in {"d", "call_price", "put_price", "delta", "gamma", "theta"}
           => g' = g]_vars

\* theta returned a value with d1, d2 and the market inputs bound, and the
\* name theta is still bound to the function.
C7_Witness ==
    /\ out.fn = "theta" /\ out.ct = "c" /\ out.exc = ""
    /\ IsFin(out.val[1])
    /\ g.theta = Func
    /\ DBound(g) /\ Bound(g.delta_call)

\* C8: the auxiliary quantities are never stale: whenever a Greek is
\* evaluated, the module's d1 and d2 equal d(sigma, S, K, r, t) of the market
\* inputs current at that moment (here: valid ones).
C8_AuxiliariesNeverStale ==
    (/\ out.fn \in {"cell_delta", "cell_gamma", "cell_theta"}
     /\ out.exc = ""
     /\ IsFin(g.d1)
     /\ ValidMarket(g.S, g.K, g.t, g.sigma)) =>
        LET res == d(g, g.sigma, g.S, g.K, g.r, g.t)
        IN  res.exc = "" /\ <<g.d1, g.d2>> = res.val

\* C9: gamma is non-negative for every valid input (S, K, sigma, t > 0, any
\* r, any finite d2); it takes no contract type, so the value is the one for
\* the call and for the put.
C9_GammaNonNegative ==
    (/\ out.fn \in {"gamma", "cell_gamma"}
     /\ out.args # <<>>
     /\ IsFin(out.args[1])
     /\ ValidMarket(out.args[2], out.args[3], out.args[6], out.args[4])) =>
        /\ out.exc = ""
        /\ out.ct = ""
        /\ IsFin(out.val[1])
        /\ out.val[1].v >= 0

\* gamma ran on valid inputs with a negative d2 and returned a positive value.
C9_Witness ==
    /\ out.fn = "gamma"
    /\ ValidMarket(out.args[2], out.args[3], out.args[6], out.args[4])
    /\ IsFin(out.args[1]) /\ out.args[1].v < 0
    /\ out.exc = ""
    /\ out.val[1].v > 0

\* C10: in the top-to-bottom run the module's d1 is bound before the delta
\* cell, which passes it to both delta calls: neither raises, Call Delta is
\* Phi(d1) and Put Delta is -Phi(-d1) for the d1 of the inputs assigned.
C10_RunDelta ==
    /\ pc >= 7 => DBound(g)
    /\ out.fn = "cell_delta" =>
        /\ out.exc = ""
        /\ out.args = <<g.d1>>
        /\ <<g.d1, g.d2>> = d(g, g.sigma, g.S, g.K, g.r, g.t).val
        /\ g.delta_call = Cdf(g.d1)
        /\ g.delta_put = XNeg(Cdf(XNeg(g.d1)))
        /\ out.val = <<g.delta_call, g.delta_put>>

\* The delta cell has run in order on valid inputs, with a put delta strictly
\* between -1 and 0.
C10_Witness ==
    /\ pc = 8
    /\ out.fn = "cell_delta" /\ out.exc = ""
    /\ ValidMarket(g.S, g.K, g.t, g.sigma)
    /\ IsFin(g.delta_put) /\ g.delta_put.v < 0 /\ g.delta_put.v > -1000

====
